---- MODULE Spec2Model ----
(***************************************************************************)
(* Model of notebooks/4_feature_importance_analysis.ipynb: the four        *)
(* feature-importance tables, the consensus aggregation of cell 20, the    *)
(* PCA-informed profiling of cell 22 and the high-risk rule of cell 24.    *)
(*                                                                         *)
(* Numbers are exact rationals [n |-> numerator, d |-> denominator];       *)
(* the float NaN that 0/0 produces is the record with d = 0.               *)
(***************************************************************************)
EXTENDS Integers, Sequences, FiniteSets, TLC

VARIABLES
    pc,                   \* the next cell of the notebook to execute
    error,                \* the exception that stopped the run, or "none"
    ns,                   \* names bound in the kernel's namespace
    run,                  \* 1 for the first execution of the notebook, 2 for a re-run
    lib,                  \* what the library calls return for the data at hand
    csv,                  \* the rows of ../data/insurance_cleaned.csv
    df,                   \* the working table
    X_scaled,             \* StandardScaler().fit_transform(X)
    X_pca,                \* first-component score of every row
    loadings,             \* PCA loadings, indexed by feature_names
    X_train, X_test,      \* row labels of the training and held-out split
    rf,                   \* the RandomForestRegressor
    rf_importance, perm_importance, shap_importance,
    perm_rows, shap_rows, \* rows handed to permutation_importance / the explainer
    X_standardized, coef_importance,
    comparison, comparison_norm, consensus_importance,
    pc1_thresh, high_pc1, recommendation,
    high_risk_mask,
    previous,             \* outputs kept from the first execution
    sortmemo              \* row orders this build's sort has produced, by input

vars == <<pc, error, ns, run, lib, csv, df, X_scaled, X_pca, loadings, X_train, X_test,
          rf, rf_importance, perm_importance, shap_importance, perm_rows, shap_rows,
          X_standardized, coef_importance,
          comparison, comparison_norm, consensus_importance,
          pc1_thresh, high_pc1, recommendation, high_risk_mask, previous, sortmemo>>

(* ------------------------------ bounds --------------------------------- *)

\* importances the estimators report lie in 0..MaxScore; OLS coefficients in
\* -MaxScore..MaxScore
MaxScore == 1

\* rows of insurance_cleaned.csv
NumRec == 3

\* rows whose age, bmi and children vary over the inputs
VaryRows == 2

\* first-component scores lie in -MaxPC..MaxPC
MaxPC == 2

\* records of the larger tables, enough for the 0.95 quantile to leave two
\* records above it
ManyRec == 22

(* --------------------------- exact arithmetic -------------------------- *)

RECURSIVE GCD(_, _)
GCD(a, b) == IF b = 0 THEN a ELSE GCD(b, a % b)

Abs(x) == IF x < 0 THEN -x ELSE x

NaN == [n |-> 0, d |-> 0]

IsNaN(x) == x.d = 0

\* the rational a/b in lowest terms, b > 0
Frac(a, b) ==
    LET g == GCD(Abs(a), b) IN [n |-> a \div g, d |-> b \div g]

Num(v) == [n |-> v, d |-> 1]

Zero == Num(0)
One == Num(1)
Half == Frac(1, 2)

FLess(a, b) == a.n * b.d < b.n * a.d
FLeq(a, b) == a.n * b.d <= b.n * a.d

\* float arithmetic: NaN is absorbing
FAdd(a, b) ==
    IF IsNaN(a) \/ IsNaN(b) THEN NaN
    ELSE Frac(a.n * b.d + b.n * a.d, a.d * b.d)

FSub(a, b) ==
    IF IsNaN(a) \/ IsNaN(b) THEN NaN
    ELSE Frac(a.n * b.d - b.n * a.d, a.d * b.d)

\* float division: 0/0 is NaN.  The only zero divisor the notebook meets is
\* x.max() - x.min() of a constant column, where every numerator x - x.min()
\* is 0 as well.
FDiv(a, b) ==
    IF IsNaN(a) \/ IsNaN(b) \/ b.n = 0 THEN NaN
    ELSE IF b.n > 0 THEN Frac(a.n * b.d, a.d * b.n)
    ELSE Frac(-(a.n * b.d), a.d * (-b.n))

FAbs(a) == [n |-> Abs(a.n), d |-> a.d]

(* ------------------------------ features ------------------------------- *)

\* columns of the design matrix X, in column order (two of the eight the
\* notebook builds: 'smoker' is mapped in place, 'sex_male' is the first dummy
\* that get_dummies appends)
feature_names == <<"smoker", "sex_male">>

Range(s) == {s[i] : i \in DOMAIN s}

Features == Range(feature_names)

\* Python's ordering of the index labels (str.__lt__), as a table
LabelOrder == <<"age", "bmi", "children", "const", "region_northwest",
                "region_southeast", "region_southwest", "sex_male", "smoker">>

LabelRank(f) == CHOOSE i \in DOMAIN LabelOrder : LabelOrder[i] = f

Perms(S) ==
    {p \in [1..Cardinality(S) -> S] : \A i, j \in DOMAIN p : p[i] = p[j] => i = j}

(* --------------------------- pandas Series ----------------------------- *)
\* A Series is [idx |-> sequence of labels (row order), val |-> label -> number]

Keys(s) == Range(s.idx)

\* position of label k in the sequence idx
IndexOf(idx, k) == CHOOSE i \in DOMAIN idx : idx[i] = k

\* Series.sort_values(ascending=False) with the default kind='quicksort' and
\* na_position='last' (pandas' nargsort): the rows that hold a number come
\* first, descending, rows of equal value in an order the sort does not
\* promise (only 'mergesort' and 'stable' are stable); the NaN rows follow in
\* the order they had.  Every row order this allows:
SortValuesDesc(idx, val) ==
    {p \in Perms(Range(idx)) :
        \A i, j \in DOMAIN p :
            i < j => /\ IsNaN(val[p[i]]) =>
                            /\ IsNaN(val[p[j]])
                            /\ IndexOf(idx, p[i]) < IndexOf(idx, p[j])
                     /\ (~IsNaN(val[p[i]]) /\ ~IsNaN(val[p[j]]))
                            => FLeq(val[p[j]], val[p[i]])}

\* The sort is unstable but not random: one build orders the same input the
\* same way every time.  The row order given to <<rows as passed, sort keys>>:
SortChoices(idx, key) ==
    IF <<idx, key>> \in DOMAIN sortmemo
    THEN {sortmemo[<<idx, key>>]}
    ELSE SortValuesDesc(idx, key)

Remember(idx, key, p) == sortmemo' = (<<idx, key>> :> p) @@ sortmemo

\* the sort keys of sort_values(..., key=abs)
AbsKeys(val) == [k \in DOMAIN val |-> FAbs(val[k])]

\* sorted(labels)
SortLabels(K) ==
    CHOOSE p \in Perms(K) :
        \A i, j \in DOMAIN p : i < j => LabelRank(p[i]) < LabelRank(p[j])

\* Series.drop(label)
Drop(s, label) ==
    [idx |-> SelectSeq(s.idx, LAMBDA k : k # label),
     val |-> [k \in Keys(s) \ {label} |-> s.val[k]]]

EmptySeries == [idx |-> <<>>, val |-> <<>>]

EmptyFrame == [index |-> <<>>, col |-> <<>>]

(* ------------------- cell 20: the consensus aggregator ----------------- *)

\* the dict handed to pd.DataFrame, in insertion order
ComparisonColumns ==
    <<"RandomForest", "Permutation", "SHAP", "Regression", "PCA_PC1", "PCA_PC2">>

\* pd.DataFrame({name: Series}) -> union_indexes: the first index when all
\* indexes are equal, else the sorted union of the labels
UnionIndexes(ss) ==
    IF \A i \in DOMAIN ss : ss[i].idx = ss[1].idx
    THEN ss[1].idx
    ELSE SortLabels(UNION {Keys(ss[i]) : i \in DOMAIN ss})

\* the columns put side by side row by row, the labels of the rows ignored
DataFrameByPosition(names, ss) ==
    LET index == UnionIndexes(ss) IN
    [index |-> index,
     col |-> [c \in Range(names) |->
                LET s == ss[CHOOSE i \in DOMAIN names : names[i] = c] IN
                [f \in Range(index) |->
                    IF IndexOf(index, f) \in DOMAIN s.idx
                    THEN s.val[s.idx[IndexOf(index, f)]] ELSE NaN]]]

\* pd.DataFrame({...}): the Series aligned on the union index, a label that a
\* Series lacks filled with NaN
DataFrameOf(names, ss) ==
    LET index == UnionIndexes(ss) IN
    [index |-> index,
     col |-> [c \in Range(names) |->
                LET s == ss[CHOOSE i \in DOMAIN names : names[i] = c] IN
                [f \in Range(index) |->
                    IF f \in Keys(s) THEN s.val[f] ELSE NaN]]]

\* x.min() / x.max(): NaN entries skipped, NaN when nothing is left
ColMin(x) ==
    LET present == {k \in DOMAIN x : ~IsNaN(x[k])} IN
    IF present = {} THEN NaN
    ELSE x[CHOOSE k \in present : \A j \in present : FLeq(x[k], x[j])]

ColMax(x) ==
    LET present == {k \in DOMAIN x : ~IsNaN(x[k])} IN
    IF present = {} THEN NaN
    ELSE x[CHOOSE k \in present : \A j \in present : FLeq(x[j], x[k])]

\* lambda x: (x - x.min())/(x.max()-x.min())
MinMaxNormalize(x) ==
    [k \in DOMAIN x |-> FDiv(FSub(x[k], ColMin(x)), FSub(ColMax(x), ColMin(x)))]

RECURSIVE FSum(_, _)
FSum(x, K) ==
    IF K = {} THEN Zero
    ELSE LET k == CHOOSE j \in K : TRUE IN FAdd(x[k], FSum(x, K \ {k}))

\* DataFrame.mean(axis=1) on one row: skipna=True, NaN when every entry is NaN
RowMean(x) ==
    LET present == {k \in DOMAIN x : ~IsNaN(x[k])} IN
    IF present = {} THEN NaN
    ELSE FDiv(FSum(x, present), Num(Cardinality(present)))

\* the columns averaged into the consensus
ConsensusColumns == {"RandomForest", "Permutation", "SHAP", "Regression"}

\* the six Series of the comparison table
ComparisonSeries(rfi, permi, shapi, coefi, load) ==
    <<rfi, permi, shapi, Drop(coefi, "const"),
      [idx |-> load.index, val |-> load.col["PC1"]],
      [idx |-> load.index, val |-> load.col["PC2"]]>>

Comparison(rfi, permi, shapi, coefi, load) ==
    DataFrameOf(ComparisonColumns, ComparisonSeries(rfi, permi, shapi, coefi, load))

Normalized(cmp) ==
    [index |-> cmp.index,
     col |-> [c \in DOMAIN cmp.col |-> MinMaxNormalize(cmp.col[c])]]

Consensus(norm) ==
    [f \in Range(norm.index) |->
        RowMean([c \in ConsensusColumns |-> norm.col[c][f]])]

WithConsensus(norm) ==
    [index |-> norm.index,
     col |-> [c \in DOMAIN norm.col \cup {"consensus"} |->
                IF c = "consensus" THEN Consensus(norm) ELSE norm.col[c]]]

(* ------------------------------ the data ------------------------------- *)

Rows == DOMAIN df

Column(f) == [i \in Rows |-> df[i][f]]

RECURSIVE ISum(_, _)
ISum(x, K) ==
    IF K = {} THEN 0
    ELSE LET k == CHOOSE j \in K : TRUE IN x[k] + ISum(x, K \ {k})

\* a standardized value sgn * sqrt(sq), kept exact; sq is NaN for a NaN value
Root(sgn, sq) == [sgn |-> sgn, sq |-> sq]

Sign(x) == IF x > 0 THEN 1 ELSE IF x < 0 THEN -1 ELSE 0

\* n * sum(x^2) - sum(x)^2: n^2 times the population variance of the column
VarNum(x) ==
    Cardinality(DOMAIN x) * ISum([i \in DOMAIN x |-> x[i] * x[i]], DOMAIN x)
        - ISum(x, DOMAIN x) * ISum(x, DOMAIN x)

\* n * x[i] - sum(x): n times the centred value
Centred(x, i) == Cardinality(DOMAIN x) * x[i] - ISum(x, DOMAIN x)

\* StandardScaler().fit_transform on one column: (x - mean) / scale with
\* scale = sqrt(population variance), and a zero scale replaced by 1
\* (sklearn's _handle_zeros_in_scale), so a constant column becomes zeros
StandardScalerColumn(x) ==
    [i \in DOMAIN x |->
        IF VarNum(x) = 0 THEN Root(0, Zero)
        ELSE Root(Sign(Centred(x, i)),
                  Frac(Centred(x, i) * Centred(x, i), VarNum(x)))]

\* (X - X.mean()) / X.std() on one column: pandas' sample std (ddof=1); for
\* a constant column 0/0, for a single row std itself is NaN
PandasStandardizeColumn(x) ==
    LET n == Cardinality(DOMAIN x) IN
    [i \in DOMAIN x |->
        IF VarNum(x) = 0 \/ n < 2 THEN Root(0, NaN)
        ELSE Root(Sign(Centred(x, i)),
                  Frac(Centred(x, i) * Centred(x, i) * (n - 1), n * VarNum(x)))]

HasNaN(m) == \E f \in DOMAIN m : \E i \in DOMAIN m[f] : IsNaN(m[f][i].sq)

ConstantColumns == {f \in Features : \A i, j \in Rows : df[i][f] = df[j][f]}

(* ---------------------------- random state ----------------------------- *)

NoSeed == 0 - 1

\* the stream a numpy RandomState draws from: fixed by an integer seed, fresh
\* OS entropy in every execution when random_state is None
RngKey(random_state) ==
    IF random_state = NoSeed THEN <<"entropy", run>> ELSE <<"seed", random_state>>

\* RandomForestRegressor(n_estimators=100) without a random_state
Unseeded == NoSeed

rf_random_state == 42

perm_random_state == 42

split_random_state == 42

(* -------------------------------- cells -------------------------------- *)

Abort(exc) ==
    /\ error' = exc
    /\ pc' = "aborted"

\* read_csv, smoker.map({'yes': 1, 'no': 0}) and get_dummies(drop_first=True)
\* of the sex column ('female' is the level dropped); the region dummies are
\* not followed
Preprocess(table) ==
    [i \in DOMAIN table |->
        [age |-> table[i].age, bmi |-> table[i].bmi, children |-> table[i].children,
         smoker |-> IF table[i].smoker = "yes" THEN 1 ELSE 0,
         sex_male |-> IF table[i].sex = "male" THEN 1 ELSE 0,
         charges |-> table[i].charges]]

StandardScalerFitTransform(table) ==
    [f \in Features |-> StandardScalerColumn([i \in DOMAIN table |-> table[i][f]])]

\* cell 2
Cell2 ==
    /\ pc = "cell2"
    /\ df' = Preprocess(csv)
    /\ X_scaled' = StandardScalerFitTransform(df')
    /\ ns' = ns \cup {"df", "X", "y", "feature_names", "scaler", "X_scaled"}
    /\ pc' = "cell4"
    /\ UNCHANGED <<error, run, lib, csv, X_pca, loadings, X_train, X_test, rf,
                   rf_importance, perm_importance, shap_importance, perm_rows,
                   shap_rows, X_standardized, coef_importance, comparison,
                   comparison_norm, consensus_importance, pc1_thresh, high_pc1,
                   recommendation, high_risk_mask, previous, sortmemo>>

\* pd.DataFrame(pca.components_.T, columns=['PC1', ...], index=feature_names)
LoadingsFrame(components) ==
    [index |-> feature_names,
     col |-> [c \in {"PC1", "PC2"} |->
                [f \in Features |-> Num(components[c][f])]]]

\* cell 4: PCA().fit_transform(X_scaled) and the loadings
Cell4 ==
    /\ pc = "cell4"
    /\ X_pca' = lib.pc1
    /\ loadings' = LoadingsFrame(lib.components)
    /\ ns' = ns \cup {"pca", "X_pca", "loadings"}
    /\ pc' = "cell12"
    /\ UNCHANGED <<error, run, lib, csv, df, X_scaled, X_train, X_test, rf,
                   rf_importance, perm_importance, shap_importance, perm_rows,
                   shap_rows, X_standardized, coef_importance, comparison,
                   comparison_norm, consensus_importance, pc1_thresh, high_pc1,
                   recommendation, high_risk_mask, previous, sortmemo>>

\* the held-out split that the "Todo" of cell 12 leaves to be written:
\* train_test_split (imported in cell 1) with a fixed seed
TodoSplit ==
    /\ pc = "cell12"
    /\ "X_train" \notin ns
    /\ X_train' = lib.split[RngKey(split_random_state)].train
    /\ X_test' = lib.split[RngKey(split_random_state)].test
    /\ ns' = ns \cup {"X_train", "X_test", "y_train", "y_test"}
    /\ UNCHANGED <<pc, error, run, lib, csv, df, X_scaled, X_pca, loadings, rf,
                   rf_importance, perm_importance, shap_importance, perm_rows,
                   shap_rows, X_standardized, coef_importance, comparison,
                   comparison_norm, consensus_importance, pc1_thresh, high_pc1,
                   recommendation, high_risk_mask, previous, sortmemo>>

Unfitted == [fitted |-> FALSE, rows |-> {}, key |-> <<>>]

\* pd.DataFrame({'feature': feature_names, 'importance': a})
\*     .sort_values('importance', ascending=False), as the Series
\* .set_index('feature')['importance'] that cell 20 takes from it
ImportanceColumn(a) == [f \in Features |-> Num(a[f])]

\* cell 12 with X_train bound: the forest is fitted on the training rows
Cell12Fit ==
    /\ pc = "cell12"
    /\ "X_train" \in ns
    /\ rf' = [fitted |-> TRUE, rows |-> X_train, key |-> RngKey(rf_random_state)]
    /\ LET imp == ImportanceColumn(lib.rf[RngKey(rf_random_state)]) IN
       \E p \in SortChoices(feature_names, imp) :
          /\ rf_importance' = [idx |-> p, val |-> imp]
          /\ Remember(feature_names, imp, p)
    /\ ns' = ns \cup {"rf", "rf_importance"}
    /\ pc' = "cell14"
    /\ UNCHANGED <<error, run, lib, csv, df, X_scaled, X_pca, loadings, X_train,
                   X_test, perm_importance, shap_importance, perm_rows,
                   shap_rows, X_standardized, coef_importance, comparison,
                   comparison_norm, consensus_importance, pc1_thresh, high_pc1,
                   recommendation, high_risk_mask, previous>>

\* cell 12 as it stands: rf is built, then rf.fit(X_train, y_train) reads a
\* name no cell has bound
Cell12NameError ==
    /\ pc = "cell12"
    /\ "X_train" \notin ns
    /\ rf' = Unfitted
    /\ ns' = ns \cup {"rf"}
    /\ Abort("NameError")
    /\ UNCHANGED <<run, lib, csv, df, X_scaled, X_pca, loadings, X_train,
                   X_test, rf_importance, perm_importance, shap_importance,
                   perm_rows, shap_rows, X_standardized, coef_importance,
                   comparison, comparison_norm, consensus_importance, pc1_thresh,
                   high_pc1, recommendation, high_risk_mask, previous, sortmemo>>

Cell12 == Cell12Fit \/ Cell12NameError

\* permutation_importance(rf, X_train, y_train, ...)
TrainingRows == X_train

\* the rows permutation_importance(rf, X_test, y_test, ...) shuffles and scores
PermutationRows == X_test

\* cell 14 (the 'std' column of perm_importance is not followed)
Cell14 ==
    /\ pc = "cell14"
    /\ perm_rows' = PermutationRows
    /\ LET imp == ImportanceColumn(lib.perm[RngKey(perm_random_state)]) IN
       \E p \in SortChoices(feature_names, imp) :
          /\ perm_importance' = [idx |-> p, val |-> imp]
          /\ Remember(feature_names, imp, p)
    /\ ns' = ns \cup {"result", "perm_importance"}
    /\ pc' = "cell16"
    /\ UNCHANGED <<error, run, lib, csv, df, X_scaled, X_pca, loadings, X_train,
                   X_test, rf, rf_importance, shap_importance,
                   shap_rows, X_standardized, coef_importance, comparison,
                   comparison_norm, consensus_importance, pc1_thresh, high_pc1,
                   recommendation, high_risk_mask, previous>>

\* the rows explainer.shap_values(X_test) explains
ShapRows == X_test

\* cell 16: mean absolute SHAP value per feature
Cell16 ==
    /\ pc = "cell16"
    /\ shap_rows' = ShapRows
    /\ LET imp == ImportanceColumn(lib.shap) IN
       \E p \in SortChoices(feature_names, imp) :
          /\ shap_importance' = [idx |-> p, val |-> imp]
          /\ Remember(feature_names, imp, p)
    /\ ns' = ns \cup {"explainer", "shap_values", "shap_importance"}
    /\ pc' = "cell18"
    /\ UNCHANGED <<error, run, lib, csv, df, X_scaled, X_pca, loadings, X_train,
                   X_test, rf, rf_importance, perm_importance, perm_rows,
                   X_standardized, coef_importance, comparison,
                   comparison_norm, consensus_importance, pc1_thresh, high_pc1,
                   recommendation, high_risk_mask, previous>>

\* (X - X.mean()) / X.std(), then sm.add_constant
PandasStandardize(table) ==
    [f \in Features \cup {"const"} |->
        IF f = "const" THEN [i \in DOMAIN table |-> Root(1, One)]
        ELSE PandasStandardizeColumn([i \in DOMAIN table |-> table[i][f]])]

\* model.params: the intercept and one coefficient per feature
Params(intercept, coef) ==
    [k \in DOMAIN coef \cup {"const"} |-> IF k = "const" THEN intercept ELSE coef[k]]

\* ['const'] + list(feature_names)
CoefRows == <<"const">> \o feature_names

\* pd.DataFrame({'feature': ['const'] + list(feature_names),
\*               'importance': model.params, ...})
\*     .sort_values('importance', key=abs, ascending=False)
SortCoefficients(params) ==
    \E p \in SortChoices(CoefRows, AbsKeys(params)) :
        /\ coef_importance' = [idx |-> p, val |-> params]
        /\ Remember(CoefRows, AbsKeys(params), p)

Cell18Frame ==
    /\ pc = "cell18"
    /\ X_standardized' = PandasStandardize(df)
    /\ ns' = ns \cup {"X_standardized", "model", "coef_importance"}
    /\ UNCHANGED <<run, lib, csv, df, X_scaled, X_pca, loadings, X_train,
                   X_test, rf, rf_importance, perm_importance, shap_importance,
                   perm_rows, shap_rows, comparison,
                   comparison_norm, consensus_importance, pc1_thresh, high_pc1,
                   recommendation, high_risk_mask, previous>>

\* cell 18 on a design matrix without a constant column
Cell18Fit ==
    /\ Cell18Frame
    /\ ~HasNaN(X_standardized')
    /\ SortCoefficients(Params(Num(lib.intercept), ImportanceColumn(lib.params)))
    /\ pc' = "cell20"
    /\ UNCHANGED error

\* cell 18 when X.std() is 0 for a column: the exog holds NaN, and OLS either
\* refuses it (MissingDataError: exog contains inf or nans) ...
Cell18Raises ==
    /\ Cell18Frame
    /\ HasNaN(X_standardized')
    /\ Abort("MissingDataError")
    /\ UNCHANGED <<coef_importance, sortmemo>>

\* ... or, where statsmodels does not check, the fit returns NaN parameters
Cell18NaNParams ==
    /\ Cell18Frame
    /\ HasNaN(X_standardized')
    /\ SortCoefficients([k \in Features \cup {"const"} |-> NaN])
    /\ pc' = "cell20"
    /\ UNCHANGED error

Cell18 == Cell18Fit \/ Cell18Raises \/ Cell18NaNParams

\* cell 20
Cell20 ==
    /\ pc = "cell20"
    /\ comparison' = Comparison(rf_importance, perm_importance, shap_importance,
                                coef_importance, loadings)
    /\ comparison_norm' = WithConsensus(Normalized(comparison'))
    /\ \E p \in SortChoices(comparison'.index, comparison_norm'.col["consensus"]) :
          /\ consensus_importance' = [idx |-> p, val |-> comparison_norm'.col["consensus"]]
          /\ Remember(comparison'.index, comparison_norm'.col["consensus"], p)
    /\ ns' = ns \cup {"comparison", "comparison_norm", "consensus_importance"}
    /\ pc' = "cell22"
    /\ UNCHANGED <<error, run, lib, csv, df, X_scaled, X_pca, loadings, X_train,
                   X_test, rf, rf_importance, perm_importance, shap_importance,
                   perm_rows, shap_rows, X_standardized, coef_importance,
                   pc1_thresh, high_pc1, recommendation, high_risk_mask, previous>>

(* ------------------ cell 22: PCA-informed thresholds ------------------- *)

\* the k-th smallest value of x (k = 1 for the minimum)
KthSmallest(x, k) ==
    CHOOSE v \in Range(x) :
        /\ Cardinality({i \in DOMAIN x : x[i] < v}) < k
        /\ k <= Cardinality({i \in DOMAIN x : x[i] <= v})

\* the quantile level 0.95 of line 518, as QuantileNum / QuantileDen
QuantileNum == 19

QuantileDen == 20

\* Series.quantile(q) with the default interpolation='linear': position
\* q * (n - 1) in the sorted values, interpolated between its two neighbours
Quantile(x) ==
    LET n == Cardinality(DOMAIN x)
        h == QuantileNum * (n - 1)
        lo == (h \div QuantileDen) + 1
        r == h % QuantileDen
        slo == KthSmallest(x, lo)
        shi == IF r = 0 THEN slo ELSE KthSmallest(x, lo + 1)
    IN  IF n = 0 THEN NaN
        ELSE Frac(QuantileDen * slo + r * (shi - slo), QuantileDen)

\* >= in place of >
AtOrAboveThreshold(score, thresh) == ~IsNaN(thresh) /\ FLeq(thresh, Num(score))

\* pca_df['PC1'] > pc1_thresh, one row of the mask (a comparison with NaN is False)
AboveThreshold(score, thresh) == ~IsNaN(thresh) /\ FLess(thresh, Num(score))

\* df[pca_df['PC1'] >= pc1_thresh]
HighPC1Inclusive(scores, thresh) ==
    {i \in DOMAIN scores : ~IsNaN(thresh) /\ FLeq(thresh, Num(scores[i]))}

\* df[mask]: the rows whose label the mask marks True
HighPC1(scores, thresh) == {i \in DOMAIN scores : AboveThreshold(scores[i], thresh)}

\* Series.mean() of an integer column over the rows K: NaN when K is empty
MeanOf(f, K) == FDiv(Num(ISum([i \in K |-> df[i][f]], K)), Num(Cardinality(K)))

\* Series.mean() of the bmi column (floats)
MeanBmi(K) == FDiv(FSum([i \in K |-> df[i].bmi], K), Num(Cardinality(K)))

\* 'yes' if high_pc1['smoker'].mean() >= 0.5 else 'no'
SmokerClassFromHalf(K) ==
    IF ~IsNaN(MeanOf("smoker", K)) /\ FLeq(Half, MeanOf("smoker", K))
    THEN "yes" ELSE "no"

\* 'yes' if high_pc1['smoker'].mean() > 0.5 else 'no'
SmokerClass(K) ==
    IF ~IsNaN(MeanOf("smoker", K)) /\ FLess(Half, MeanOf("smoker", K))
    THEN "yes" ELSE "no"

Cell22 ==
    /\ pc = "cell22"
    /\ pc1_thresh' = Quantile(X_pca)
    /\ high_pc1' = HighPC1(X_pca, pc1_thresh')
    /\ recommendation' = [age |-> MeanOf("age", high_pc1'),
                          bmi |-> MeanBmi(high_pc1'),
                          smoker |-> SmokerClass(high_pc1'),
                          charges |-> MeanOf("charges", high_pc1')]
    /\ ns' = ns \cup {"pca_df", "pc1_thresh", "high_pc1"}
    /\ pc' = "cell24"
    /\ UNCHANGED <<error, run, lib, csv, df, X_scaled, X_pca, loadings, X_train,
                   X_test, rf, rf_importance, perm_importance, shap_importance,
                   perm_rows, shap_rows, X_standardized, coef_importance,
                   comparison, comparison_norm, consensus_importance,
                   high_risk_mask, previous, sortmemo>>

(* --------------------- cell 24: the high-risk rule --------------------- *)

AgeCut == 50

BmiCut == 35

SmokerCut == 1

ChildrenCut == 3

\* age >= 50 in place of age > 50
HighRiskFromAgeCut(r) ==
    /\ r.age >= AgeCut
    /\ FLess(Num(BmiCut), r.bmi)
    /\ r.smoker = SmokerCut
    /\ r.children < ChildrenCut

\* one row of high_risk_mask
HighRisk(r) ==
    /\ r.age > AgeCut
    /\ FLess(Num(BmiCut), r.bmi)
    /\ r.smoker = SmokerCut
    /\ r.children < ChildrenCut

Cell24 ==
    /\ pc = "cell24"
    /\ high_risk_mask' = {i \in Rows : HighRisk(df[i])}
    /\ ns' = ns \cup {"high_risk_mask"}
    /\ pc' = "done"
    /\ UNCHANGED <<error, run, lib, csv, df, X_scaled, X_pca, loadings, X_train,
                   X_test, rf, rf_importance, perm_importance, shap_importance,
                   perm_rows, shap_rows, X_standardized, coef_importance,
                   comparison, comparison_norm, consensus_importance,
                   pc1_thresh, high_pc1, recommendation, previous, sortmemo>>

(* ------------------------------- re-run -------------------------------- *)

NoRecommendation == [age |-> NaN, bmi |-> NaN, smoker |-> "no", charges |-> NaN]

NoOutputs == [ranking |-> <<>>, recommendation |-> NoRecommendation, mask |-> {}]

\* Restart & Run All on the same file with the same seeds: the outputs of the
\* first execution are kept aside, the kernel starts empty
Rerun ==
    /\ pc = "done"
    /\ run = 1
    /\ previous' = [ranking |-> consensus_importance.idx,
                    recommendation |-> recommendation,
                    mask |-> high_risk_mask]
    /\ run' = 2
    /\ pc' = "cell2"
    /\ ns' = {}
    /\ df' = <<>>
    /\ X_scaled' = <<>>
    /\ X_pca' = <<>>
    /\ loadings' = EmptyFrame
    /\ X_train' = {}
    /\ X_test' = {}
    /\ rf' = Unfitted
    /\ rf_importance' = EmptySeries
    /\ perm_importance' = EmptySeries
    /\ shap_importance' = EmptySeries
    /\ perm_rows' = {}
    /\ shap_rows' = {}
    /\ X_standardized' = <<>>
    /\ coef_importance' = EmptySeries
    /\ comparison' = EmptyFrame
    /\ comparison_norm' = EmptyFrame
    /\ consensus_importance' = EmptySeries
    /\ pc1_thresh' = NaN
    /\ high_pc1' = {}
    /\ recommendation' = NoRecommendation
    /\ high_risk_mask' = {}
    /\ UNCHANGED <<error, lib, csv, sortmemo>>

(* ------------------------------- inputs -------------------------------- *)

Position(f) == CHOOSE i \in DOMAIN feature_names : feature_names[i] = f

\* what an estimator may report for the features
Arrays == [Features -> 0..MaxScore]

\* what OLS may report for the features
Coefficients == [Features -> (0 - MaxScore)..MaxScore]

\* the streams a random_state can name
RngKeys ==
    {RngKey(s) : s \in {rf_random_state, perm_random_state, split_random_state} \ {NoSeed}}
        \cup {<<"entropy", r>> : r \in 1..2}

\* train_test_split: two non-empty, disjoint sets of row labels covering the table
Partitions(R) == {[train |-> T, test |-> R \ T] : T \in (SUBSET R) \ {{}, R}}

\* the principal directions are fixed up to sign
ComponentChoices ==
    {[PC1 |-> [f \in Features |-> s1],
      PC2 |-> [f \in Features |-> IF Position(f) % 2 = 1 THEN s2 ELSE 0 - s2]] :
        s1 \in {0 - 1, 1}, s2 \in {0 - 1, 1}}

\* scores of centred data sum to zero
ScoreVectors(R) == {x \in [R -> (0 - MaxPC)..MaxPC] : ISum(x, R) = 0}

FirstOnly == [f \in Features |-> IF Position(f) = 1 THEN MaxScore ELSE 0]

Always(v) == [k \in RngKeys |-> v]

SomeSplit == [train |-> (1..NumRec) \ {NumRec}, test |-> {NumRec}]

SomeScores == [i \in 1..NumRec |-> IF i = 1 THEN 0 - 1 ELSE IF i = NumRec THEN 1 ELSE 0]

SomeComponents == CHOOSE c \in ComponentChoices : c.PC1[feature_names[1]] = 1 /\ c.PC2[feature_names[1]] = 1

\* one way the library may answer
SomeLib ==
    [split |-> Always(SomeSplit), rf |-> Always(FirstOnly), perm |-> Always(FirstOnly),
     shap |-> FirstOnly, params |-> FirstOnly, intercept |-> MaxScore + 1,
     pc1 |-> SomeScores, components |-> SomeComponents]

\* a row of the file
CsvRow(age, bmi, children, smoker, sex) ==
    [age |-> age, bmi |-> bmi, children |-> children, smoker |-> smoker,
     sex |-> sex, charges |-> 1]

BothSexes(t) ==
    /\ \E i \in DOMAIN t : t[i].sex = "female"
    /\ \E i \in DOMAIN t : t[i].sex = "male"

SomeSex(i) == IF i = 1 THEN "female" ELSE "male"

SomeSmoker(i) == IF i = 1 THEN "yes" ELSE "no"

\* a file whose design matrix has no constant column, and one whose smoker
\* column is constant
SomeCsv ==
    [i \in 1..NumRec |-> CsvRow(AgeCut + 1, Num(BmiCut + 1), 0, SomeSmoker(i), SomeSex(i))]

NoSmokerCsv ==
    [i \in 1..NumRec |-> CsvRow(AgeCut + 1, Num(BmiCut + 1), 0, "no", SomeSex(i))]

\* the notebook before its first cell runs
Start(file, answers) ==
    /\ pc = "cell2"
    /\ error = "none"
    /\ ns = {}
    /\ run = 1
    /\ lib = answers
    /\ csv = file
    /\ df = <<>>
    /\ X_scaled = <<>>
    /\ X_pca = <<>>
    /\ loadings = EmptyFrame
    /\ X_train = {}
    /\ X_test = {}
    /\ rf = Unfitted
    /\ rf_importance = EmptySeries
    /\ perm_importance = EmptySeries
    /\ shap_importance = EmptySeries
    /\ perm_rows = {}
    /\ shap_rows = {}
    /\ X_standardized = <<>>
    /\ coef_importance = EmptySeries
    /\ comparison = EmptyFrame
    /\ comparison_norm = EmptyFrame
    /\ consensus_importance = EmptySeries
    /\ pc1_thresh = NaN
    /\ high_pc1 = {}
    /\ recommendation = NoRecommendation
    /\ high_risk_mask = {}
    /\ previous = NoOutputs
    /\ sortmemo = <<>>

\* the files of the pipeline runs: smoker and sex vary
PipelineFiles ==
    {t \in [1..NumRec -> {CsvRow(AgeCut + 1, Num(BmiCut + 1), 0, s, x) :
                            s \in {"yes", "no"}, x \in {"female", "male"}}] :
        BothSexes(t)}

Init ==
    \E file \in PipelineFiles, part \in Partitions(1..NumRec), a \in Arrays :
        Start(file, [SomeLib EXCEPT !.split = Always(part), !.rf = Always(a)])

Next ==
    \/ Cell2
    \/ Cell4
    \/ TodoSplit
    \/ Cell12
    \/ Cell14
    \/ Cell16
    \/ Cell18
    \/ Cell20
    \/ Cell22
    \/ Cell24

Spec == Init /\ [][Next]_vars

\* the aggregator on every combination of estimator answers, for a file
\* whose design matrix has no constant column
InitAgg ==
    \E a \in Arrays, b \in Arrays, c \in Arrays, w \in Coefficients :
        Start(SomeCsv, [SomeLib EXCEPT !.rf = Always(a), !.perm = Always(b),
                                       !.shap = c, !.params = w])

NextAgg ==
    \/ Cell2
    \/ Cell4
    \/ TodoSplit
    \/ Cell12
    \/ Cell14
    \/ Cell16
    \/ Cell18Fit
    \/ Cell20
    \/ Cell22
    \/ Cell24

SpecAgg == InitAgg /\ [][NextAgg]_vars

\* the profiling of cell 22 on every vector of first-component scores
FilesPC1 ==
    {t \in [1..NumRec -> {CsvRow(AgeCut + 1, b, 0, s, "male") :
                            b \in {Num(BmiCut), Frac(10 * BmiCut + 1, 10)},
                            s \in {"yes", "no"}}] :
        \A i \in DOMAIN t : i > VaryRows => t[i].bmi = Num(BmiCut)}

WithSexes(t) == [i \in DOMAIN t |-> [t[i] EXCEPT !.sex = SomeSex(i)]]

InitPC1 ==
    \E file \in FilesPC1, x \in ScoreVectors(1..NumRec) :
        Start(WithSexes(file), [SomeLib EXCEPT !.pc1 = x])

SpecPC1 == InitPC1 /\ [][Next]_vars

\* the profiling of cell 22 on larger tables: the last VaryRows records carry
\* the largest scores (ties included) and any smoker status, the others share
\* the lowest score
ProfileScores(n, t) ==
    [i \in 1..n |->
        IF i > n - VaryRows
        THEN n * t[i - (n - VaryRows)] - ISum(t, DOMAIN t)
        ELSE 0 - ISum(t, DOMAIN t)]

ProfileFile(n, s) ==
    [i \in 1..n |->
        CsvRow(AgeCut + 1, Num(BmiCut + 1), 0,
               IF i > n - VaryRows THEN s[i - (n - VaryRows)] ELSE "no",
               SomeSex(i))]

ProfileSplit(n) == [train |-> (1..n) \ {n}, test |-> {n}]

InitProfile ==
    \E n \in {ManyRec - 1, ManyRec},
       t \in [1..VaryRows -> 0..MaxPC],
       s \in [1..VaryRows -> {"yes", "no"}] :
        Start(ProfileFile(n, s),
              [SomeLib EXCEPT !.pc1 = ProfileScores(n, t),
                              !.split = Always(ProfileSplit(n))])

SpecProfile == InitProfile /\ [][Next]_vars

\* the rule of cell 24 on rows at and next to every cutoff
FilesRule ==
    {t \in [1..NumRec -> {CsvRow(a, b, c, s, "male") :
                            a \in {AgeCut, AgeCut + 1},
                            b \in {Num(BmiCut), Frac(10 * BmiCut + 1, 10)},
                            c \in {ChildrenCut - 1, ChildrenCut},
                            s \in {"yes", "no"}}] :
        \A i \in DOMAIN t : i > VaryRows => t[i] = CsvRow(AgeCut, Num(BmiCut), ChildrenCut, "no", "male")}

InitRule == \E file \in FilesRule : Start(WithSexes(file), SomeLib)

SpecRule == InitRule /\ [][Next]_vars

\* two executions on the same file: what the forest and the permutation scorer
\* answer may depend on the stream they draw from
OneHot == {[f \in Features |-> IF Position(f) = k THEN MaxScore ELSE 0] :
             k \in 0..Len(feature_names)}

InitRuns ==
    \E file \in {SomeCsv, NoSmokerCsv},
       a \in [RngKeys -> OneHot], b \in [RngKeys -> OneHot] :
        Start(file, [SomeLib EXCEPT !.rf = a, !.perm = b])

NextRuns == Next \/ Rerun

SpecRuns == InitRuns /\ [][NextRuns]_vars

\* the aggregator on Series whose labels need not agree: every table over
\* every non-empty set of features, in a row order its sort allows
KeyedSeries(vals) ==
    UNION {UNION {{[idx |-> p, val |-> v] : p \in SortValuesDesc(SortLabels(K), v)} :
                  v \in [K -> vals]} :
           K \in (SUBSET Features) \ {{}}}

\* the same for coef_importance, which also holds the intercept
KeyedCoefficients(vals) ==
    UNION {UNION {{[idx |-> p, val |-> Params(Num(SomeLib.intercept), v)] :
                      p \in SortValuesDesc(SortLabels(K \cup {"const"}),
                                           AbsKeys(Params(Num(SomeLib.intercept), v)))} :
                  v \in [K -> vals]} :
           K \in (SUBSET Features) \ {{}}}

Scores == {Num(v) : v \in 0..MaxScore}

SignedScores == {Num(v) : v \in (0 - MaxScore)..MaxScore}

InitKeys ==
    /\ pc = "cell20"
    /\ error = "none"
    /\ ns = {"df", "X", "y", "feature_names", "scaler", "X_scaled", "pca", "X_pca",
             "loadings", "X_train", "X_test", "y_train", "y_test", "rf",
             "rf_importance", "result", "perm_importance", "explainer",
             "shap_values", "shap_importance", "X_standardized", "model",
             "coef_importance"}
    /\ run = 1
    /\ lib = SomeLib
    /\ csv = SomeCsv
    /\ df = Preprocess(SomeCsv)
    /\ X_scaled = StandardScalerFitTransform(Preprocess(SomeCsv))
    /\ X_pca = SomeLib.pc1
    /\ loadings = LoadingsFrame(SomeLib.components)
    /\ X_train = SomeSplit.train
    /\ X_test = SomeSplit.test
    /\ rf = [fitted |-> TRUE, rows |-> SomeSplit.train, key |-> <<"seed", rf_random_state>>]
    /\ rf_importance \in KeyedSeries(Scores)
    /\ perm_importance \in KeyedSeries(Scores)
    /\ shap_importance \in KeyedSeries(Scores)
    /\ perm_rows = SomeSplit.test
    /\ shap_rows = SomeSplit.test
    /\ X_standardized = PandasStandardize(Preprocess(SomeCsv))
    /\ coef_importance \in KeyedCoefficients(SignedScores)
    /\ comparison = EmptyFrame
    /\ comparison_norm = EmptyFrame
    /\ consensus_importance = EmptySeries
    /\ pc1_thresh = NaN
    /\ high_pc1 = {}
    /\ recommendation = NoRecommendation
    /\ high_risk_mask = {}
    /\ previous = NoOutputs
    /\ sortmemo = <<>>

NextKeys ==
    \/ Cell20
    \/ Cell22
    \/ Cell24

SpecKeys == InitKeys /\ [][NextKeys]_vars

(* ------------------------- the consensus claims ------------------------ *)

Aggregated == "consensus_importance" \in ns

\* the feature labels the four estimators report
EstimatorKeys ==
    <<Keys(rf_importance), Keys(perm_importance), Keys(shap_importance),
      Keys(Drop(coef_importance, "const"))>>

SameKeySets == \A i \in DOMAIN EstimatorKeys : EstimatorKeys[i] = EstimatorKeys[1]

InUnitInterval(v) == ~IsNaN(v) /\ FLeq(Zero, v) /\ FLeq(v, One)

\* C1: for four score mappings over the same feature set the consensus has
\* exactly that feature set as its keys, and every consensus value is a
\* number in [0,1], never NaN.
C1_ConsensusInUnitInterval ==
    (Aggregated /\ SameKeySets) =>
        /\ Keys(consensus_importance) = EstimatorKeys[1]
        /\ \A f \in Keys(consensus_importance) :
              InUnitInterval(consensus_importance.val[f])

\* an estimator that reports one and the same importance for every feature
Degenerate(c) ==
    /\ \A f \in DOMAIN comparison.col[c] : ~IsNaN(comparison.col[c][f])
    /\ \A f, g \in DOMAIN comparison.col[c] :
          comparison.col[c][f] = comparison.col[c][g]

\* C2: an estimator that reports the same importance for every feature
\* contributes exactly 0.5 to every feature's consensus.
C2_DegenerateContributesHalf ==
    Aggregated =>
        \A c \in ConsensusColumns :
            Degenerate(c) =>
                \A f \in DOMAIN comparison_norm.col[c] :
                    comparison_norm.col[c][f] = Half

\* C3: the consensus of a feature is the arithmetic mean of exactly its four
\* normalized estimator scores, and the PCA loading columns of the comparison
\* table change no consensus value.
C3_ConsensusIsMeanOfFour ==
    Aggregated =>
        /\ \A f \in Keys(consensus_importance) :
              /\ ~IsNaN(consensus_importance.val[f])
              /\ consensus_importance.val[f] =
                    FDiv(FSum([c \in ConsensusColumns |-> comparison_norm.col[c][f]],
                              ConsensusColumns),
                         Num(Cardinality(ConsensusColumns)))
        /\ \A other \in ComponentChoices :
              Consensus(Normalized(Comparison(rf_importance, perm_importance,
                                              shap_importance, coef_importance,
                                              LoadingsFrame(other))))
                = consensus_importance.val

\* C4: the consensus output is in descending order of score, and features of
\* equal score keep the order of the design-matrix columns.
C4_DescendingStableTies ==
    Aggregated =>
        \A i, j \in DOMAIN consensus_importance.idx :
            LET a == consensus_importance.val[consensus_importance.idx[i]]
                b == consensus_importance.val[consensus_importance.idx[j]]
            IN  (i < j /\ ~IsNaN(a) /\ ~IsNaN(b)) =>
                    /\ FLeq(b, a)
                    /\ a = b => Position(consensus_importance.idx[i])
                                  < Position(consensus_importance.idx[j])

ZeroColumns(m) == {f \in DOMAIN m : \A i \in DOMAIN m[f] : m[f][i] = Root(0, Zero)}

\* C6: a design matrix with an exactly constant column stops standardization
\* with a DataError at stage 1; no silently zeroed column reaches PCA and no
\* NaN reaches the OLS regression.
C6_ConstantColumnRaises ==
    ("df" \in ns /\ ConstantColumns # {}) =>
        /\ error = "DataError"
        /\ "X_pca" \in ns => ZeroColumns(X_scaled) = {}
        /\ "X_standardized" \in ns => ~HasNaN(X_standardized)

\* C7: the high-PC1 subpopulation is exactly the set of records whose score is
\* strictly greater than the 95th percentile of the scores; a record whose
\* score equals the percentile is not selected.
C7_StrictlyAbovePercentile ==
    "high_pc1" \in ns =>
        /\ pc1_thresh = Quantile(X_pca)
        /\ \A i \in Rows :
              /\ i \in high_pc1 <=> FLess(pc1_thresh, Num(X_pca[i]))
              /\ Num(X_pca[i]) = pc1_thresh => i \notin high_pc1

C7_Witness ==
    /\ "high_pc1" \in ns
    /\ \E i \in Rows : Num(X_pca[i]) = pc1_thresh /\ i \notin high_pc1
    /\ \E i \in Rows : X_pca[i] < 0

\* C8: the rule flags a record iff age > 50, bmi > 35, smoker == 1 and
\* children < 3 hold together; age 50, BMI 35 or 3 children are not flagged.
C8_RuleIsStrictConjunction ==
    "high_risk_mask" \in ns =>
        \A i \in Rows :
            /\ i \in high_risk_mask <=>
                  (/\ df[i].age >= AgeCut + 1
                   /\ ~FLeq(df[i].bmi, Num(BmiCut))
                   /\ df[i].smoker = 1
                   /\ df[i].children <= ChildrenCut - 1)
            /\ (df[i].age = AgeCut \/ df[i].bmi = Num(BmiCut)
                    \/ df[i].children = ChildrenCut) => i \notin high_risk_mask

C8_Witness ==
    /\ "high_risk_mask" \in ns
    /\ high_risk_mask # {}
    /\ \E i \in Rows \ high_risk_mask :
          /\ df[i].age = AgeCut
          /\ FLess(Num(BmiCut), df[i].bmi)
          /\ df[i].smoker = 1
          /\ df[i].children < ChildrenCut

\* C9: two executions on the same file with the same seeds end with the same
\* consensus ranking order and the same threshold recommendation and rule.
C9_RerunIsIdentical ==
    (run = 2 /\ pc = "done") =>
        /\ consensus_importance.idx = previous.ranking
        /\ recommendation = previous.recommendation
        /\ high_risk_mask = previous.mask

C9_Witness ==
    /\ run = 2
    /\ pc = "done"
    /\ Len(previous.ranking) = Len(feature_names)
    /\ lib.rf[<<"entropy", 1>>] # lib.rf[<<"entropy", 2>>]

\* C10: no row the forest was fitted on is among the rows on which
\* permutation importance (and SHAP) is evaluated.
C10_ScoredOnHeldOutRows ==
    /\ "perm_importance" \in ns => (rf.fitted /\ perm_rows \cap rf.rows = {})
    /\ "shap_importance" \in ns => (rf.fitted /\ shap_rows \cap rf.rows = {})

C10_Witness ==
    /\ "shap_importance" \in ns
    /\ perm_rows # {}
    /\ shap_rows # {}
    /\ Cardinality(rf.rows) > 1

\* C11: the Regression score that enters the consensus for a feature is the
\* absolute value of its fitted OLS coefficient: it is non-negative, and two
\* features whose coefficients are opposite get the same normalized score.
C11_RegressionScoreIsAbsolute ==
    "comparison" \in ns =>
        \A f \in Features :
            /\ comparison.col["Regression"][f] = FAbs(Num(lib.params[f]))
            /\ FLeq(Zero, comparison.col["Regression"][f])
            /\ \A g \in Features :
                  lib.params[f] = 0 - lib.params[g] =>
                      comparison_norm.col["Regression"][f]
                          = comparison_norm.col["Regression"][g]

\* C12: with the cells run once each in order, no cell reads a name that no
\* earlier cell bound (no NameError stops the run), and a finished run has
\* bound both final outputs, the consensus ranking and the high-risk rule.
C12_StagesReadDefinedInputs ==
    /\ error # "NameError"
    /\ pc = "done" => {"consensus_importance", "high_pc1", "high_risk_mask"} \subseteq ns

\* C13: the BMI cutoff of the high-risk rule is at least the mean BMI of the
\* high-PC1 subpopulation it is said to be derived from, for every file.
C13_BmiCutoffNotBelowMean ==
    ("high_pc1" \in ns /\ high_pc1 # {}) =>
        /\ recommendation.bmi = MeanBmi(high_pc1)
        /\ FLeq(recommendation.bmi, Num(BmiCut))

Smokers(K) == {i \in K : df[i].smoker = 1}

\* C14: the recommended smoker requirement is 'yes' exactly when strictly
\* more than half of the high-PC1 records are smokers, and 'no' otherwise,
\* also when smokers are exactly half of them.
C14_SmokerIsStrictMajority ==
    "high_pc1" \in ns =>
        (recommendation.smoker = "yes"
            <=> 2 * Cardinality(Smokers(high_pc1)) > Cardinality(high_pc1))

C14_Witness ==
    /\ "high_pc1" \in ns
    /\ Cardinality(high_pc1) = 2
    /\ Cardinality(Smokers(high_pc1)) = 1
    /\ recommendation.smoker = "no"

\* ceil((1 - 0.95) * (n - 1))
MostAbove(n) ==
    ((QuantileDen - QuantileNum) * (n - 1) + QuantileDen - 1) \div QuantileDen

\* C16: of n records, at most ceil(0.05 * (n - 1)) are strictly above the
\* linearly interpolated 0.95 quantile of the PC1 scores, ties or not.
C16_AtMostFivePercent ==
    "high_pc1" \in ns => Cardinality(high_pc1) <= MostAbove(Len(X_pca))

C16_Witness ==
    /\ "high_pc1" \in ns
    /\ Cardinality(high_pc1) = MostAbove(Len(X_pca))
    /\ \E i, j \in high_pc1 : i # j /\ X_pca[i] = X_pca[j]
    /\ \E i, j \in Rows \ high_pc1 : i # j /\ X_pca[i] = X_pca[j]

\* what each estimator reported for feature f, whatever row it sits in
Reported(f) ==
    [c \in ConsensusColumns |->
        CASE c = "RandomForest" -> Num(lib.rf[rf.key][f])
          [] c = "Permutation" -> Num(lib.perm[RngKey(perm_random_state)][f])
          [] c = "SHAP" -> Num(lib.shap[f])
          [] c = "Regression" -> Num(lib.params[f])]

\* C15: the estimator tables are each sorted by their own importance, and
\* the comparison table still joins them by feature name: the values in a
\* feature's row, and averaged into its consensus, are that feature's scores.
C15_JoinedByFeatureName ==
    "consensus_importance" \in ns =>
        \A f \in Features :
            /\ \A c \in ConsensusColumns : comparison.col[c][f] = Reported(f)[c]
            /\ consensus_importance.val[f]
                  = RowMean([c \in ConsensusColumns |-> comparison_norm.col[c][f]])

C15_Witness ==
    /\ "consensus_importance" \in ns
    /\ rf_importance.idx # perm_importance.idx
    /\ rf_importance.idx # shap_importance.idx
    /\ Drop(coef_importance, "const").idx # rf_importance.idx
    /\ \A f \in Features : \A c \in ConsensusColumns : ~IsNaN(comparison_norm.col[c][f])

====
